---- MODULE Spec2Model ----
(***************************************************************************)
(* Model of hotspot_analysis.py: the Getis-Ord Gi* statistic over a point  *)
(* table (compute_gi_star_rows) and the point-in-polygon join with its     *)
(* per-polygon summary (join_points_to_geojson).                           *)
(*                                                                         *)
(* Number representation.  A CSV cell is a string; float() of a cell is    *)
(* modelled by ParseFloat/ParseDeg, which give the exact decimal value of  *)
(* the cell (in tenths, or whole degrees) together with the significand of *)
(* the IEEE-754 binary64 number Python holds for it.  Where every value of *)
(* the column is the same double, the code's mean, deviation and `s == 0`  *)
(* test are decided by rounding alone, and the model carries out the       *)
(* binary64 additions, division and multiplication on the significand      *)
(* (round to nearest, ties to even).  Where the values differ, deviations  *)
(* exceed the rounding error by many orders of magnitude and the same      *)
(* comparisons are computed on the exact decimal values.                   *)
(***************************************************************************)
EXTENDS Integers, Sequences, FiniteSets, TLC

VARIABLES
    rows,          \* compute_gi_star_rows: the caller's input table
    k_neighbors,   \* compute_gi_star_rows: k_neighbors argument
    value_col,     \* compute_gi_star_rows: value_col argument
    gi_result,     \* what the call to compute_gi_star_rows produced
    point_rows,    \* join_points_to_geojson: the caller's point table
    features,      \* join_points_to_geojson: gj["features"]
    polygon_id_col,\* join_points_to_geojson: polygon_id_col argument
    pc,            \* join_points_to_geojson: position in the function
    joined_rows,   \* join_points_to_geojson: joined_rows
    summary_map,   \* join_points_to_geojson: summary_map (pid -> counters)
    summary_order, \* join_points_to_geojson: insertion order of summary_map
    agg_idx,       \* join_points_to_geojson: rows aggregated so far
    summary_rows,  \* join_points_to_geojson: summary_rows
    g_point,       \* _point_in_geometry: point argument
    g_geometry,    \* _point_in_geometry: geometry argument
    g_result       \* _point_in_geometry: returned value

vars == <<rows, k_neighbors, value_col, gi_result, point_rows, features,
          polygon_id_col, pc, joined_rows, summary_map, summary_order,
          agg_idx, summary_rows, g_point, g_geometry, g_result>>

giVars == <<rows, k_neighbors, value_col, gi_result>>
joinVars == <<point_rows, features, polygon_id_col, pc, joined_rows,
              summary_map, summary_order, agg_idx, summary_rows>>
geomVars == <<g_point, g_geometry, g_result>>

----------------------------------------------------------------------------
(* Bounds of the model. *)

MaxRows == 5

MaxK == 2

GridMax == 4

MaxFeatures == 2

MaxPoints == 2

----------------------------------------------------------------------------
(* Rows: a row is a function from column names to cells. *)

\* row[key] = val on a dict: overwrites an existing key, adds a new one.
Put(row, key, val) ==
    [c \in (DOMAIN row) \cup {key} |-> IF c = key THEN val ELSE row[c]]

RECURSIVE SumSeq(_)
SumSeq(s) == IF s = <<>> THEN 0 ELSE Head(s) + SumSeq(Tail(s))

Abs(x) == IF x < 0 THEN -x ELSE x

Min2(a, b) == IF a <= b THEN a ELSE b

----------------------------------------------------------------------------
(* float(cell): the cells of the bounded input tables.                     *)

Limb == 2^27

\* float() of a value cell: its exact decimal value in tenths, and the 53-bit
\* significand hi * Limb + lo of the binary64 number it denotes
\* (0.1 is 0x1.999999999999ap-4, 1 is 0x1.0p0).
ParseFloat(cell) ==
    CASE cell = "0.1" -> [tenths |-> 1,  hi |-> 53687091, lo |-> 26843546]
      [] cell = "1"   -> [tenths |-> 10, hi |-> 2^25,     lo |-> 0]

\* float() of a coordinate cell, in whole degrees.
ParseDeg(cell) ==
    CASE cell = "0"  -> 0
      [] cell = "1"  -> 1
      [] cell = "5"  -> 5
      [] cell = "20" -> 20

\* float() of a gi_star_zscore or gi_star_pvalue cell, in millionths.
ParseMicro(cell) ==
    CASE cell = "2.750000"  -> 2750000
      [] cell = "-2.000000" -> -2000000
      [] cell = "0.250000"  -> 250000
      [] cell = "1.750000"  -> 1750000
      [] cell = "0.005960"  -> 5960
      [] cell = "0.045500"  -> 45500
      [] cell = "0.802587"  -> 802587
      [] cell = "0.080118"  -> 80118

----------------------------------------------------------------------------
(* binary64 arithmetic on significands held as two limbs (hi, lo), all in  *)
(* units of the last place of the operand v: round to nearest, ties to     *)
(* even, to 53 significant bits.                                           *)

BNNorm(hi, lo) == [hi |-> hi + (lo \div Limb), lo |-> lo % Limb]

BNAdd(a, b) == BNNorm(a.hi + b.hi, a.lo + b.lo)

BNMulSmall(a, w) == BNNorm(a.hi * w, a.lo * w)

BNDivSmall(a, n) ==
    LET low == (a.hi % n) * Limb + a.lo
    IN  [q |-> [hi |-> a.hi \div n, lo |-> low \div n], r |-> low % n]

\* a - b for two numbers a few units apart.
BNDiff(a, b) == (a.hi - b.hi) * Limb + (a.lo - b.lo)

\* Bits of x beyond 53.
ExcessBits(x) ==
    IF x.hi < 2^26 THEN 0
    ELSE IF x.hi < 2^27 THEN 1
    ELSE IF x.hi < 2^28 THEN 2
    ELSE 3

\* The binary64 nearest to q + r/n (0 <= r < n), ties to even.
RoundQuot(q, r, n) ==
    LET u     == 2^ExcessBits(q)
        rem   == q.lo % u
        base  == [hi |-> q.hi, lo |-> q.lo - rem]
        twice == 2 * (rem * n + r)
        odd   == (q.lo \div u) % 2 = 1
        up    == twice > u * n \/ (twice = u * n /\ odd)
    IN  IF up THEN BNAdd(base, [hi |-> 0, lo |-> u]) ELSE base

FlRound(x) == RoundQuot(x, 0, 1)

FlDiv(x, n) == LET d == BNDivSmall(x, n) IN RoundQuot(d.q, d.r, n)

\* sum() of j copies of the double v: left to right, starting from 0.
RECURSIVE FlSumSame(_, _)
FlSumSame(v, j) ==
    IF j = 0 THEN [hi |-> 0, lo |-> 0]
    ELSE FlRound(BNAdd(FlSumSame(v, j - 1), v))

----------------------------------------------------------------------------
(* Numeric helpers of the statistic.                                       *)

\* _haversine_km for coordinates of 0 or 1 degree, in whole metres
\* (r = 6371.0088 km): 1 degree of latitude, or of longitude on the equator,
\* is 111.1950802 km; 1 degree of longitude at latitude 1 is 111.1781443 km;
\* (0,0)-(1,1) is 157.2495985 km.
HaversineM(lat1, lon1, lat2, lon2) ==
    LET dlat == Abs(lat2 - lat1)
        dlon == Abs(lon2 - lon1)
    IN  CASE dlat = 0 /\ dlon = 0 -> 0
          [] dlat = 1 /\ dlon = 0 -> 111195
          [] dlat = 0 /\ dlon = 1 -> IF lat1 = 0 THEN 111195 ELSE 111178
          [] dlat = 1 /\ dlon = 1 -> 157250

AllSame(values) == \A j \in DOMAIN values : values[j] = values[1]

\* _mean of a column holding one repeated double v.
MeanSame(v, n) == FlDiv(FlSumSame(v, n), n)

\* v - m for every value v of the column, m = _mean(vals), in a unit common
\* to the column: one unit in the last place of the repeated double when all
\* values are the same double, 1/(10 n) otherwise.
Deviations(values) ==
    LET n == Len(values) IN
    IF AllSame(values)
    THEN LET m == MeanSame(values[1], n)
         IN  [j \in 1..n |-> BNDiff(values[1], m)]
    ELSE LET S == SumSeq([j \in 1..n |-> values[j].tenths])
         IN  [j \in 1..n |-> n * values[j].tenths - S]

\* _sample_std: the sum of the squared deviations; s is the square root of
\* this over n - 1 (times the unit), so s == 0 exactly when it is 0.
SampleStd(values) ==
    LET d == Deviations(values) IN SumSeq([j \in 1..Len(values) |-> d[j] * d[j]])

\* weighted_x_sum - xbar * wij_sum, in the unit of Deviations.  Where the
\* values differ and the exact difference is 0, the code's difference is a
\* rounding residue of the order of 1e-16 (it occurs from 6 rows on); z is
\* then 0 here and of that order in the code, "Not Significant" in both.
Numerator(values, ids) ==
    LET n == Len(values)
        w == Cardinality(ids)
    IN  IF AllSame(values)
        THEN BNDiff(FlSumSame(values[1], w),
                    FlRound(BNMulSmall(MeanSame(values[1], n), w)))
        ELSE LET S  == SumSeq([j \in 1..n |-> values[j].tenths])
                 xs == SumSeq([j \in 1..n |->
                                 IF j \in ids THEN values[j].tenths ELSE 0])
             IN  n * xs - w * S

\* z = (weighted_x_sum - xbar * wij_sum) / denominator, held exactly as
\* num / sqrt(den2): with s = sqrt(SampleStd / (n - 1)) and
\* denom_term = (n * wij_sq_sum - wij_sum^2) / (n - 1),
\* denominator = sqrt(SampleStd * (n * wij_sq_sum - wij_sum^2)) / (n - 1).
ZScore(numer, n, sqdev, wij_sum, wij_sq_sum) ==
    [num  |-> numer * (n - 1),
     den2 |-> sqdev * (n * wij_sq_sum - wij_sum * wij_sum)]

\* The first k decimal digits of r / d (0 <= r < d), appended to acc.
RECURSIVE DecDigits(_, _, _, _)
DecDigits(r, d, k, acc) ==
    IF k = 0 THEN acc
    ELSE DecDigits((r * 10) % d, d, k - 1, acc * 10 + ((r * 10) \div d))

\* z * z in millionths, rounded down.
ZSquaredMicro(z) ==
    LET a == z.num * z.num
    IN  DecDigits(a % z.den2, z.den2, 6, a \div z.den2)

\* Squares, in millionths and rounded up, of the |z| at which
\* 2 * _normal_sf(|z|) falls to 0.01, 0.05 and 0.10
\* (2.5758293, 1.9599640, 1.6448536).
ZSq01 == 6634897

ZSq05 == 3841459

ZSq10 == 2705544

\* p = 2 * _normal_sf(abs(z)), held as the smallest of the levels 1, 5, 10
\* (percent) that p does not exceed, 100 when p exceeds them all.
PValue(z) ==
    LET zsq == ZSquaredMicro(z)
    IN  IF zsq >= ZSq01 THEN 1
        ELSE IF zsq >= ZSq05 THEN 5
        ELSE IF zsq >= ZSq10 THEN 10
        ELSE 100

Labels ==
    {"Hot Spot 99%", "Hot Spot 95%", "Hot Spot 90%",
     "Cold Spot 99%", "Cold Spot 95%", "Cold Spot 90%", "Not Significant"}

HotLabels == {"Hot Spot 99%", "Hot Spot 95%", "Hot Spot 90%"}

ColdLabels == {"Cold Spot 99%", "Cold Spot 95%", "Cold Spot 90%"}

\* classify_significance without its final return: a p above 0.10 yields no
\* label.
classify_significance_no_default(z_score, p_value) ==
    IF p_value <= 1 THEN (IF z_score.num > 0 THEN "Hot Spot 99%" ELSE "Cold Spot 99%")
    ELSE IF p_value <= 5 THEN (IF z_score.num > 0 THEN "Hot Spot 95%" ELSE "Cold Spot 95%")
    ELSE IF p_value <= 10 THEN (IF z_score.num > 0 THEN "Hot Spot 90%" ELSE "Cold Spot 90%")
    ELSE ""

\* classify_significance with the two labels of the 90% tier exchanged.
classify_significance_swapped_90(z_score, p_value) ==
    IF p_value <= 1 THEN (IF z_score.num > 0 THEN "Hot Spot 99%" ELSE "Cold Spot 99%")
    ELSE IF p_value <= 5 THEN (IF z_score.num > 0 THEN "Hot Spot 95%" ELSE "Cold Spot 95%")
    ELSE IF p_value <= 10 THEN (IF z_score.num > 0 THEN "Cold Spot 90%" ELSE "Hot Spot 90%")
    ELSE "Not Significant"

classify_significance(z_score, p_value) ==
    IF p_value <= 1 THEN (IF z_score.num > 0 THEN "Hot Spot 99%" ELSE "Cold Spot 99%")
    ELSE IF p_value <= 5 THEN (IF z_score.num > 0 THEN "Hot Spot 95%" ELSE "Cold Spot 95%")
    ELSE IF p_value <= 10 THEN (IF z_score.num > 0 THEN "Hot Spot 90%" ELSE "Cold Spot 90%")
    ELSE "Not Significant"

----------------------------------------------------------------------------
(* compute_gi_star_rows.                                                   *)

id_col == "id"

lat_col == "latitude"

lon_col == "longitude"

Error(msg) == [status |-> "error", error |-> msg, out |-> <<>>]

Returned(out) == [status |-> "ok", error |-> "", out |-> out]

NoError == [status |-> "ok", error |-> "", out |-> <<>>]

\* _validate_columns: the error it raises, NoError when it returns.
ValidateColumns(rs, required) ==
    IF rs = <<>> THEN Error("Input CSV is empty")
    ELSE IF \E c \in required : c \notin DOMAIN rs[1]
    THEN Error("Missing required columns")
    ELSE NoError

\* dists.sort(key=lambda x: x[1]): a stable sort of <<index, distance>> pairs;
\* an element goes after every element whose key does not exceed its own.
InsertByDist(sorted, e) ==
    LET p == Cardinality({q \in 1..Len(sorted) : sorted[q][2] <= e[2]})
    IN  SubSeq(sorted, 1, p) \o <<e>> \o SubSeq(sorted, p + 1, Len(sorted))

RECURSIVE SortByDist(_)
SortByDist(dists) ==
    IF dists = <<>> THEN <<>>
    ELSE InsertByDist(SortByDist(SubSeq(dists, 1, Len(dists) - 1)),
                      dists[Len(dists)])

\* dists of point i: one <<j, distance>> pair per point j, in input order.
Dists(points, i) ==
    [j \in 1..Len(points) |->
        <<j, HaversineM(points[i][1], points[i][2], points[j][1], points[j][2])>>]

\* NeighborIds with k = min(k_neighbors, n): the point itself is not counted
\* in.
NeighborIdsOffByOne(points, i, kn) ==
    LET sorted == SortByDist(Dists(points, i))
        k      == Min2(kn, Len(points))
    IN  {sorted[q][1] : q \in 1..k}

\* k = min(k_neighbors + 1, n); neighbor_ids = {idx for idx, _ in dists[:k]}
NeighborIds(points, i, kn) ==
    LET sorted == SortByDist(Dists(points, i))
        k      == Min2(kn + 1, Len(points))
    IN  {sorted[q][1] : q \in 1..k}

\* The loop over the points, from point i on, with the rows appended so
\* far (s is computed once, before the loop); a raise abandons the rows.
\* The gi_star_zscore cell holds z as ZScore gives it and the gi_star_pvalue
\* cell the level PValue gives, in place of their 6-decimal strings.
RECURSIVE GiLoop(_, _, _, _, _, _)
GiLoop(rs, points, sqdev, kn, i, out) ==
    IF i > Len(points) THEN Returned(out)
    ELSE
    LET n            == Len(points)
        values       == [j \in 1..n |-> points[j][3]]
        neighbor_ids == NeighborIds(points, i, kn)
        wij_sum      == Cardinality(neighbor_ids)
        wij_sq_sum   == wij_sum
        z            == ZScore(Numerator(values, neighbor_ids), n, sqdev,
                               wij_sum, wij_sq_sum)
    IN  IF z.den2 = 0
        THEN Error("Encountered zero denominator in Gi* computation")
        ELSE LET p   == PValue(z)
                 row == Put(Put(Put(rs[i], "gi_star_zscore", z),
                                "gi_star_pvalue", p),
                            "gi_bin", classify_significance(z, p))
             IN  GiLoop(rs, points, sqdev, kn, i + 1, Append(out, row))

compute_gi_star_rows(rs, idc, latc, lonc, valc, kn) ==
    LET v == ValidateColumns(rs, {idc, latc, lonc, valc})
    IN  IF v.status = "error" THEN v
        ELSE IF kn < 1 THEN Error("k_neighbors must be >= 1")
        ELSE IF Len(rs) < 3 THEN Error("At least 3 points are required")
        ELSE LET points == [j \in 1..Len(rs) |->
                              <<ParseDeg(rs[j][latc]), ParseDeg(rs[j][lonc]),
                                ParseFloat(rs[j][valc])>>]
                 s      == SampleStd([j \in 1..Len(rs) |-> points[j][3]])
             IN  IF s = 0
                 THEN Error("Input value column has no variance")
                 ELSE GiLoop(rs, points, s, kn, 1, <<>>)

----------------------------------------------------------------------------
(* The bounded input tables of compute_gi_star_rows.                       *)

Sites == {<<"0", "0">>, <<"1", "1">>}

ValueCells == {"0.1", "1"}

\* Row j of a table: the four default columns, and for a table that was
\* classified before, the gi_bin column of that run.
MkRow(j, site, cell, classified) ==
    LET base == [c \in {"id", "latitude", "longitude", "value"} |->
                    CASE c = "id"        -> ToString(j)
                      [] c = "latitude"  -> site[1]
                      [] c = "longitude" -> site[2]
                      [] c = "value"     -> cell]
    IN  IF classified THEN Put(base, "gi_bin", "Hot Spot 99%") ELSE base

Pending == [status |-> "pending", error |-> "", out |-> <<>>]

GiIdle ==
    /\ rows = <<>>
    /\ k_neighbors = 0
    /\ value_col = ""
    /\ gi_result = [status |-> "idle", error |-> "", out |-> <<>>]

JoinIdle ==
    /\ point_rows = <<>>
    /\ features = <<>>
    /\ polygon_id_col = ""
    /\ pc = "idle"
    /\ joined_rows = <<>>
    /\ summary_map = <<>>
    /\ summary_order = <<>>
    /\ agg_idx = 0
    /\ summary_rows = <<>>

GeomIdle ==
    /\ g_point = <<0, 0>>
    /\ g_geometry = [type |-> "", coordinates |-> <<>>]
    /\ g_result = [status |-> "idle", inside |-> FALSE]

InitGi ==
    /\ \E n \in 0..MaxRows :
        \E t \in [1..n -> Sites \X ValueCells] :
            \E classified \in BOOLEAN :
                rows = [j \in 1..n |-> MkRow(j, t[j][1], t[j][2], classified)]
    /\ k_neighbors \in 0..MaxK
    /\ value_col \in {"value", "weight"}
    /\ gi_result = Pending
    /\ JoinIdle
    /\ GeomIdle

\* run_hotspot_command's call: the whole of compute_gi_star_rows.
CallComputeGiStar ==
    /\ gi_result.status = "pending"
    /\ gi_result' = compute_gi_star_rows(rows, id_col, lat_col, lon_col,
                                         value_col, k_neighbors)
    /\ UNCHANGED <<rows, k_neighbors, value_col>>
    /\ UNCHANGED joinVars
    /\ UNCHANGED geomVars

NextGi == CallComputeGiStar

SpecGi == InitGi /\ [][NextGi]_vars

----------------------------------------------------------------------------
(* Point-in-polygon.  Coordinates are whole numbers, so every product and  *)
(* quotient of the crossing test is exact or off an integer by far more    *)
(* than a rounding error.                                                  *)

\* The test of one edge (x1,y1)-(x2,y2):
\*   ((y1 > y) != (y2 > y)) and
\*   (x < (x2 - x1) * (y - y1) / ((y2 - y1) or 1e-12) + x1)
\* The second operand is evaluated only when the edge straddles y, and then
\* y2 - y1 is not 0; the comparison is multiplied through by y2 - y1.
EdgeCrossed(x, y, x1, y1, x2, y2) ==
    /\ (y1 > y) # (y2 > y)
    /\ IF y2 - y1 > 0
       THEN (x - x1) * (y2 - y1) < (x2 - x1) * (y - y1)
       ELSE (x - x1) * (y2 - y1) > (x2 - x1) * (y - y1)

\* The loop of _point_in_ring from edge i on.
RECURSIVE RingLoop(_, _, _, _)
RingLoop(point, ring, i, inside) ==
    IF i > Len(ring) THEN inside
    ELSE LET a == ring[i]
             b == ring[(i % Len(ring)) + 1]
         IN  RingLoop(point, ring, i + 1,
                      IF EdgeCrossed(point[1], point[2], a[1], a[2], b[1], b[2])
                      THEN ~inside ELSE inside)

point_in_ring(point, ring) == RingLoop(point, ring, 1, FALSE)

\* HoleLoop with `return True` inside the loop: only the first hole is
\* looked at.
HoleLoopFirstOnly(point, polygon_coords, i) ==
    IF i > Len(polygon_coords) THEN TRUE
    ELSE ~point_in_ring(point, polygon_coords[i])

\* The loop of _point_in_polygon over the hole rings, from ring i on.
RECURSIVE HoleLoop(_, _, _)
HoleLoop(point, polygon_coords, i) ==
    IF i > Len(polygon_coords) THEN TRUE
    ELSE IF point_in_ring(point, polygon_coords[i]) THEN FALSE
    ELSE HoleLoop(point, polygon_coords, i + 1)

point_in_polygon(point, polygon_coords) ==
    IF ~point_in_ring(point, polygon_coords[1]) THEN FALSE
    ELSE HoleLoop(point, polygon_coords, 2)

point_in_geometry(point, geometry) ==
    IF geometry.type = "Polygon"
    THEN point_in_polygon(point, geometry.coordinates)
    ELSE IF geometry.type = "MultiPolygon"
    THEN \E q \in 1..Len(geometry.coordinates) :
            point_in_polygon(point, geometry.coordinates[q])
    ELSE FALSE

----------------------------------------------------------------------------
(* The bounded geometries of _point_in_geometry.                           *)

\* A square ring in the vertex order of [[0,0],[0,10],[10,10],[10,0]].
Square(a, b) == <<<<a, a>>, <<a, b>>, <<b, b>>, <<b, a>>>>

Squares ==
    {Square(c[1], c[2]) :
        c \in {d \in (0..GridMax) \X (0..GridMax) : d[1] < d[2]}}

\* Squares, a triangle with a slanted edge, and a square ring that repeats
\* its first vertex at the end.
Rings ==
    Squares \cup
    {<<<<0, 0>>, <<GridMax, 0>>, <<0, GridMax>>>>,
     Square(0, GridMax) \o <<<<0, 0>>>>}

HoleRings == {Square(1, 3), Square(1, 2), <<<<1, 1>>, <<3, 1>>, <<1, 3>>>>}

PolygonCoords ==
    {<<o>> : o \in Rings}
    \cup {<<o, h>> : o \in Rings, h \in HoleRings}
    \cup {<<o, h1, h2>> : o \in Rings, h1 \in HoleRings, h2 \in HoleRings}

PartCoords == {<<o>> : o \in Rings} \cup {<<o, Square(1, 3)>> : o \in Rings}

Geometries ==
    {[type |-> "Polygon", coordinates |-> c] : c \in PolygonCoords}
    \cup {[type |-> "MultiPolygon", coordinates |-> <<a>>] : a \in PartCoords}
    \cup {[type |-> "MultiPolygon", coordinates |-> <<a, b>>] :
            a \in PartCoords, b \in PartCoords}
    \cup {[type |-> "LineString", coordinates |-> Square(0, GridMax)],
          [type |-> "Point", coordinates |-> <<1, 1>>]}

InitGeom ==
    /\ g_point \in (0..GridMax) \X (0..GridMax)
    /\ g_geometry \in Geometries
    /\ g_result = [status |-> "pending", inside |-> FALSE]
    /\ GiIdle
    /\ JoinIdle

\* A call of _point_in_geometry.
CallPointInGeometry ==
    /\ g_result.status = "pending"
    /\ g_result' = [status |-> "done",
                    inside |-> point_in_geometry(g_point, g_geometry)]
    /\ UNCHANGED <<g_point, g_geometry>>
    /\ UNCHANGED giVars
    /\ UNCHANGED joinVars

NextGeom == CallPointInGeometry

SpecGeom == InitGeom /\ [][NextGeom]_vars

----------------------------------------------------------------------------
(* join_points_to_geojson.                                                 *)

\* str() of a property value; the ids of the bounded features are strings.
Str(v) == v

\* MatchLoop without its break: the last feature that matches is kept.
RECURSIVE MatchLoopNoBreak(_, _, _, _)
MatchLoopNoBreak(point, feats, pidcol, i) ==
    IF i > Len(feats) THEN ""
    ELSE LET matches(q) ==
                 /\ pidcol \in DOMAIN feats[q].properties
                 /\ point_in_geometry(point, feats[q].geometry)
         IN  IF \E q \in (i + 1)..Len(feats) : matches(q)
             THEN MatchLoopNoBreak(point, feats, pidcol, i + 1)
             ELSE IF matches(i) THEN Str(feats[i].properties[pidcol])
             ELSE ""

\* The scan of the features for one point, from feature i on: the
\* matched_id it ends with.
RECURSIVE MatchLoop(_, _, _, _)
MatchLoop(point, feats, pidcol, i) ==
    IF i > Len(feats) THEN ""
    ELSE LET props == feats[i].properties
             geom  == feats[i].geometry
         IN  IF pidcol \notin DOMAIN props
             THEN MatchLoop(point, feats, pidcol, i + 1)
             ELSE IF point_in_geometry(point, geom)
             THEN Str(props[pidcol])
             ELSE MatchLoop(point, feats, pidcol, i + 1)

\* The body of the first loop for one row.
JoinRow(row, feats, pidcol, latc, lonc) ==
    LET point == <<ParseDeg(row[lonc]), ParseDeg(row[latc])>>
    IN  Put(row, pidcol, MatchLoop(point, feats, pidcol, 1))

NewSummary(pidcol, pid) ==
    Put([point_count |-> 0,
         hotspot_99 |-> 0, hotspot_95 |-> 0, hotspot_90 |-> 0,
         coldspot_99 |-> 0, coldspot_95 |-> 0, coldspot_90 |-> 0,
         zscore_sum |-> 0, min_pvalue |-> 1000000],
        pidcol, pid)

\* The tier counter a label adds to, "" when it adds to none.
TierOf(label) ==
    IF label = "Hot Spot 99%" THEN "hotspot_99"
    ELSE IF label = "Hot Spot 95%" THEN "hotspot_95"
    ELSE IF label = "Hot Spot 90%" THEN "hotspot_90"
    ELSE IF label = "Cold Spot 99%" THEN "coldspot_99"
    ELSE IF label = "Cold Spot 95%" THEN "coldspot_95"
    ELSE IF label = "Cold Spot 90%" THEN "coldspot_90"
    ELSE ""

\* CountRow with point_count incremented inside the tier branches only.
CountRowTierOnly(s, row) ==
    LET z  == ParseMicro(row["gi_star_zscore"])
        p  == ParseMicro(row["gi_star_pvalue"])
        s1 == [s EXCEPT !["zscore_sum"]  = @ + z,
                        !["min_pvalue"]  = Min2(@, p)]
        t  == TierOf(row["gi_bin"])
    IN  IF t = "" THEN s1
        ELSE [s1 EXCEPT ![t] = @ + 1, !["point_count"] = @ + 1]

\* The body of the second loop for one joined row: the summary of its pid
\* after the row is counted.
CountRow(s, row) ==
    LET z  == ParseMicro(row["gi_star_zscore"])
        p  == ParseMicro(row["gi_star_pvalue"])
        s1 == [s EXCEPT !["point_count"] = @ + 1,
                        !["zscore_sum"]  = @ + z,
                        !["min_pvalue"]  = Min2(@, p)]
        t  == TierOf(row["gi_bin"])
    IN  IF t = "" THEN s1 ELSE [s1 EXCEPT ![t] = @ + 1]

\* f"{x:.6f}" of sum / count, in millionths: the nearest millionth.
FormatMicro(sum, count) ==
    LET q == (2 * sum + count) \div (2 * count) IN q

\* One row of summary_rows.
SummaryRow(s, pidcol) ==
    LET count == s["point_count"]
    IN  Put([point_count |-> count,
             hotspot_99 |-> s["hotspot_99"], hotspot_95 |-> s["hotspot_95"],
             hotspot_90 |-> s["hotspot_90"],
             coldspot_99 |-> s["coldspot_99"], coldspot_95 |-> s["coldspot_95"],
             coldspot_90 |-> s["coldspot_90"],
             mean_zscore |-> IF count # 0
                             THEN FormatMicro(s["zscore_sum"], count) ELSE 0,
             min_pvalue |-> IF count # 0
                            THEN FormatMicro(s["min_pvalue"], 1) ELSE 0],
            pidcol, s[pidcol])

----------------------------------------------------------------------------
(* The bounded inputs of join_points_to_geojson.                           *)

Feature(props, gtype, coords) ==
    [properties |-> props, geometry |-> [type |-> gtype, coordinates |-> coords]]

\* The square of the spec's scenario with id "A"; a larger square "B" that
\* overlaps it; a feature that covers every point and keeps its id under the
\* property "id", not "geoid"; a feature whose geoid is the empty string; a square with a hole around (5,5);
\* a LineString.
FeatureCatalogue ==
    {Feature([geoid |-> "A"], "Polygon", <<Square(0, 10)>>),
     Feature([geoid |-> "B"], "Polygon", <<Square(0, 30)>>),
     Feature([id |-> "Z"], "Polygon", <<Square(0, 30)>>),
     Feature([geoid |-> ""], "Polygon", <<Square(0, 10)>>),
     Feature([geoid |-> "H"], "MultiPolygon",
             <<<<Square(0, 10), Square(4, 6)>>, <<Square(15, 25)>>>>),
     Feature([geoid |-> "L"], "LineString", Square(0, 30))}

PointSites == {<<"5", "5">>, <<"20", "20">>}

\* gi_star_zscore, gi_star_pvalue and gi_bin cells of a point row; the last
\* is a row whose gi_bin cell is none of the seven labels.
PointClasses ==
    {<<"2.750000", "0.005960", "Hot Spot 99%">>,
     <<"-2.000000", "0.045500", "Cold Spot 95%">>,
     <<"0.250000", "0.802587", "Not Significant">>,
     <<"1.750000", "0.080118", "N/A">>}

MkPointRow(j, site, class) ==
    [c \in {"id", "latitude", "longitude",
            "gi_star_zscore", "gi_star_pvalue", "gi_bin"} |->
        CASE c = "id"             -> ToString(j)
          [] c = "latitude"       -> site[1]
          [] c = "longitude"      -> site[2]
          [] c = "gi_star_zscore" -> class[1]
          [] c = "gi_star_pvalue" -> class[2]
          [] c = "gi_bin"         -> class[3]]

InitJoin ==
    /\ \E n \in 0..MaxPoints :
        \E t \in [1..n -> PointSites \X PointClasses] :
            point_rows = [j \in 1..n |-> MkPointRow(j, t[j][1], t[j][2])]
    /\ \E m \in 0..MaxFeatures : features \in [1..m -> FeatureCatalogue]
    /\ polygon_id_col \in {"geoid", "id"}
    /\ pc = "join"
    /\ joined_rows = <<>>
    /\ summary_map = <<>>
    /\ summary_order = <<>>
    /\ agg_idx = 0
    /\ summary_rows = <<>>
    /\ GiIdle
    /\ GeomIdle

\* The first loop: every point row joined to its polygon id.
JoinPoints ==
    /\ pc = "join"
    /\ joined_rows' = [j \in 1..Len(point_rows) |->
                          JoinRow(point_rows[j], features, polygon_id_col,
                                  lat_col, lon_col)]
    /\ pc' = "aggregate"
    /\ UNCHANGED <<point_rows, features, polygon_id_col, summary_map,
                   summary_order, agg_idx, summary_rows>>
    /\ UNCHANGED giVars
    /\ UNCHANGED geomVars

\* One iteration of the second loop: the next joined row is aggregated.
AggregateRow ==
    /\ pc = "aggregate"
    /\ agg_idx < Len(joined_rows)
    /\ LET row  == joined_rows[agg_idx + 1]
           pid  == row[polygon_id_col]
           isin == pid \in DOMAIN summary_map
           s    == IF isin THEN summary_map[pid]
                   ELSE NewSummary(polygon_id_col, pid)
       IN  /\ summary_map' = Put(summary_map, pid, CountRow(s, row))
           /\ summary_order' = IF isin THEN summary_order
                               ELSE Append(summary_order, pid)
    /\ agg_idx' = agg_idx + 1
    /\ UNCHANGED <<point_rows, features, polygon_id_col, pc, joined_rows,
                   summary_rows>>
    /\ UNCHANGED giVars
    /\ UNCHANGED geomVars

\* The third loop and the return.
BuildSummaryRows ==
    /\ pc = "aggregate"
    /\ agg_idx = Len(joined_rows)
    /\ summary_rows' = [q \in 1..Len(summary_order) |->
                           SummaryRow(summary_map[summary_order[q]],
                                      polygon_id_col)]
    /\ pc' = "done"
    /\ UNCHANGED <<point_rows, features, polygon_id_col, joined_rows,
                   summary_map, summary_order, agg_idx>>
    /\ UNCHANGED giVars
    /\ UNCHANGED geomVars

NextJoin == JoinPoints \/ AggregateRow \/ BuildSummaryRows

SpecJoin == InitJoin /\ [][NextJoin]_vars

----------------------------------------------------------------------------
(* Properties of compute_gi_star_rows (SpecGi).                            *)

GiDone == gi_result.status \in {"ok", "error"}

HasColumns == rows # <<>> /\ value_col \in DOMAIN rows[1]

PointsOf(rs, valc) ==
    [j \in 1..Len(rs) |->
        <<ParseDeg(rs[j][lat_col]), ParseDeg(rs[j][lon_col]),
          ParseFloat(rs[j][valc])>>]

AllCellsIdentical ==
    HasColumns /\ \A j \in 1..Len(rows) : rows[j][value_col] = rows[1][value_col]

\* C1: every row that compute_gi_star_rows returns carries a gi_bin value,
\* and it is one of the seven labels.
C1_LabelInEnumeration ==
    gi_result.status = "ok" =>
        \A i \in 1..Len(gi_result.out) :
            /\ "gi_bin" \in DOMAIN gi_result.out[i]
            /\ gi_result.out[i]["gi_bin"] \in Labels

\* A returned table with a Hot Spot row and a Not Significant row.
C1_Witness ==
    /\ gi_result.status = "ok"
    /\ \E i \in 1..Len(gi_result.out) : gi_result.out[i]["gi_bin"] \in HotLabels
    /\ \E i \in 1..Len(gi_result.out) :
           gi_result.out[i]["gi_bin"] = "Not Significant"

\* C2: the call ends in an error and returns no row whenever the input is
\* empty, a required column is missing, k_neighbors < 1, fewer than 3 rows
\* are supplied, or all the values of the value column are identical.
C2_ErrorsAbortWholeCall ==
    (/\ GiDone
     /\ \/ rows = <<>>
        \/ ~HasColumns
        \/ k_neighbors < 1
        \/ Len(rows) < 3
        \/ AllCellsIdentical)
    => (gi_result.status = "error" /\ gi_result.out = <<>>)

\* C7: in every returned row the sign of z and the side of the label agree,
\* and z > 0 exactly when the neighbourhood's value sum exceeds the mean
\* times the neighbourhood size.
C7_SignMatchesLabel ==
    gi_result.status = "ok" =>
        \A i \in 1..Len(gi_result.out) :
            LET row    == gi_result.out[i]
                z      == row["gi_star_zscore"]
                points == PointsOf(rows, value_col)
                values == [j \in 1..Len(points) |-> points[j][3]]
                ids    == NeighborIds(points, i, k_neighbors)
            IN  /\ z.num > 0 =>
                     row["gi_bin"] \in HotLabels \cup {"Not Significant"}
                /\ z.num <= 0 =>
                     row["gi_bin"] \in ColdLabels \cup {"Not Significant"}
                /\ (z.num > 0) <=> (Numerator(values, ids) > 0)

\* A returned table with a negative z in a Cold Spot row and a positive z in
\* a Not Significant row.
C7_Witness ==
    /\ gi_result.status = "ok"
    /\ \E i \in 1..Len(gi_result.out) :
           /\ gi_result.out[i]["gi_star_zscore"].num < 0
           /\ gi_result.out[i]["gi_bin"] \in ColdLabels
    /\ \E i \in 1..Len(gi_result.out) :
           /\ gi_result.out[i]["gi_star_zscore"].num > 0
           /\ gi_result.out[i]["gi_bin"] = "Not Significant"

\* C8: every returned row carries every column of its input row with the
\* input value unchanged.
C8_InputColumnsPreserved ==
    gi_result.status = "ok" =>
        /\ Len(gi_result.out) = Len(rows)
        /\ \A i \in 1..Len(rows) :
               \A c \in DOMAIN rows[i] :
                   /\ c \in DOMAIN gi_result.out[i]
                   /\ gi_result.out[i][c] = rows[i][c]

\* C9: the neighbourhood selected for point i contains point i itself.
C9_NeighbourhoodHoldsSelf ==
    gi_result.status = "ok" =>
        \A i \in 1..Len(rows) :
            i \in NeighborIds(PointsOf(rows, value_col), i, k_neighbors)

\* C10: with n >= 3 rows whose values are not all the same and
\* k_neighbors >= 1, the call raises the zero-denominator error exactly when
\* k_neighbors >= n - 1, and otherwise returns n rows in input order.
C10_ZeroDenominatorIffAllSelected ==
    (/\ GiDone
     /\ HasColumns
     /\ Len(rows) >= 3
     /\ k_neighbors >= 1
     /\ ~AllCellsIdentical)
    => /\ (gi_result.status = "error") <=> (k_neighbors >= Len(rows) - 1)
       /\ gi_result.status = "error" =>
              gi_result.error = "Encountered zero denominator in Gi* computation"
       /\ gi_result.status = "ok" =>
              /\ Len(gi_result.out) = Len(rows)
              /\ \A i \in 1..Len(rows) :
                     gi_result.out[i]["id"] = rows[i]["id"]

\* A call on three or more rows of differing values whose k covers every
\* point, ended by the zero-denominator error.
C10_Witness ==
    /\ Len(rows) >= 3
    /\ HasColumns
    /\ ~AllCellsIdentical
    /\ k_neighbors >= Len(rows) - 1
    /\ gi_result.status = "error"
    /\ gi_result.error = "Encountered zero denominator in Gi* computation"

----------------------------------------------------------------------------
(* Properties of _point_in_geometry (SpecGeom).                            *)

StrictlyInsideSquare(point, a, b) ==
    a < point[1] /\ point[1] < b /\ a < point[2] /\ point[2] < b

\* Inside the outer ring and inside none of the hole rings.
InsideOuterNotInHole(point, coords) ==
    /\ point_in_ring(point, coords[1])
    /\ \A q \in 2..Len(coords) : ~point_in_ring(point, coords[q])

\* C6: a Polygon contains a point iff the parity test puts it inside the
\* outer ring and inside none of the hole rings (a point strictly inside a
\* square without holes is contained, a point inside one of the hole rings is
\* not); a MultiPolygon contains it iff one of its parts does; any other
\* geometry type contains no point.
C6_GeometryContainment ==
    g_result.status = "done" =>
        LET coords == g_geometry.coordinates IN
        /\ g_geometry.type = "Polygon" =>
             /\ g_result.inside <=> InsideOuterNotInHole(g_point, coords)
             /\ \A c \in {d \in (0..GridMax) \X (0..GridMax) : d[1] < d[2]} :
                    (/\ coords = <<Square(c[1], c[2])>>
                     /\ StrictlyInsideSquare(g_point, c[1], c[2]))
                    => g_result.inside
             /\ (\E q \in 2..Len(coords) :
                    \E c \in {d \in (0..GridMax) \X (0..GridMax) : d[1] < d[2]} :
                        /\ coords[q] = Square(c[1], c[2])
                        /\ StrictlyInsideSquare(g_point, c[1], c[2]))
                => ~g_result.inside
        /\ g_geometry.type = "MultiPolygon" =>
             (g_result.inside <=>
                \E q \in 1..Len(coords) : InsideOuterNotInHole(g_point, coords[q]))
        /\ g_geometry.type \notin {"Polygon", "MultiPolygon"} => ~g_result.inside

\* A Polygon whose outer ring holds the point, whose first hole does not and
\* whose second hole does: the point is reported outside.
C6_Witness ==
    /\ g_result.status = "done"
    /\ g_geometry.type = "Polygon"
    /\ Len(g_geometry.coordinates) = 3
    /\ point_in_ring(g_point, g_geometry.coordinates[1])
    /\ ~point_in_ring(g_point, g_geometry.coordinates[2])
    /\ point_in_ring(g_point, g_geometry.coordinates[3])
    /\ ~g_result.inside

----------------------------------------------------------------------------
(* Properties of join_points_to_geojson (SpecJoin).                        *)

Joined == pc \in {"aggregate", "done"}

PointOf(row) == <<ParseDeg(row[lon_col]), ParseDeg(row[lat_col])>>

\* The features that carry the id property and contain the point of row j.
Matching(j) ==
    {i \in 1..Len(features) :
        /\ polygon_id_col \in DOMAIN features[i].properties
        /\ point_in_geometry(PointOf(point_rows[j]), features[i].geometry)}

Least(S) == CHOOSE i \in S : \A k \in S : i <= k

\* C3: every point is assigned the id of the first feature, in the given
\* order, that carries the id property and contains the point, and the empty
\* string when there is none.
C3_FirstMatchWins ==
    Joined =>
        /\ Len(joined_rows) = Len(point_rows)
        /\ \A j \in 1..Len(point_rows) :
               joined_rows[j][polygon_id_col] =
                   IF Matching(j) = {} THEN ""
                   ELSE features[Least(Matching(j))].properties[polygon_id_col]

\* A point inside two features of different ids: the id of the earlier one
\* is assigned.
C3_Witness ==
    /\ Joined
    /\ \E j \in 1..Len(point_rows) :
        \E i1 \in Matching(j) :
            \E i2 \in Matching(j) :
                /\ i1 < i2
                /\ features[i1].properties[polygon_id_col] #
                       features[i2].properties[polygon_id_col]
                /\ joined_rows[j][polygon_id_col] =
                       features[i1].properties[polygon_id_col]

TierSum(s) ==
    s["hotspot_99"] + s["hotspot_95"] + s["hotspot_90"]
    + s["coldspot_99"] + s["coldspot_95"] + s["coldspot_90"]

\* The joined rows aggregated so far that were assigned pid.
AggregatedOf(pid) ==
    {j \in 1..agg_idx : joined_rows[j][polygon_id_col] = pid}

\* C4 as stated: after every aggregated point, point_count is the sum of the
\* six tier counts plus the number of the group's points labelled
\* "Not Significant".
C4_CountIsTiersPlusNotSignificant ==
    Joined =>
        /\ \A pid \in DOMAIN summary_map :
               summary_map[pid]["point_count"] =
                   TierSum(summary_map[pid])
                   + Cardinality({j \in AggregatedOf(pid) :
                                     joined_rows[j]["gi_bin"] = "Not Significant"})
        /\ \A q \in 1..Len(summary_rows) :
               summary_rows[q]["point_count"] =
                   TierSum(summary_rows[q])
                   + Cardinality({j \in AggregatedOf(summary_rows[q][polygon_id_col]) :
                                     joined_rows[j]["gi_bin"] = "Not Significant"})

\* C4 as amended: after every aggregated point, point_count is the sum of
\* the six tier counts plus the number of the group's points whose label is
\* none of the six tier labels.
C4_CountIsTiersPlusUntiered ==
    Joined =>
        /\ \A pid \in DOMAIN summary_map :
               summary_map[pid]["point_count"] =
                   TierSum(summary_map[pid])
                   + Cardinality({j \in AggregatedOf(pid) :
                                     joined_rows[j]["gi_bin"] \notin
                                         HotLabels \cup ColdLabels})
        /\ \A q \in 1..Len(summary_rows) :
               summary_rows[q]["point_count"] =
                   TierSum(summary_rows[q])
                   + Cardinality({j \in AggregatedOf(summary_rows[q][polygon_id_col]) :
                                     joined_rows[j]["gi_bin"] \notin
                                         HotLabels \cup ColdLabels})

\* Mid-aggregation, a group of two points: one in a tier, one whose label is
\* outside the seven.
C4_Witness ==
    /\ pc = "aggregate"
    /\ agg_idx = 2
    /\ \E pid \in DOMAIN summary_map :
           /\ summary_map[pid]["point_count"] = 2
           /\ TierSum(summary_map[pid]) = 1
           /\ \E j \in AggregatedOf(pid) : joined_rows[j]["gi_bin"] \notin Labels

\* C5: the summary has exactly one row per distinct id assigned among the
\* joined points; the unmatched points form the group of the empty-string
\* id; each row's point_count is the number of points assigned to that
\* polygon, and the empty-string row's is the number of points that matched
\* no polygon.
C5_OneRowPerAssignedId ==
    pc = "done" =>
        LET ids == {summary_rows[q][polygon_id_col] : q \in 1..Len(summary_rows)}
            unmatched == {j \in 1..Len(point_rows) : Matching(j) = {}}
        IN  /\ ids = {joined_rows[j][polygon_id_col] : j \in 1..Len(joined_rows)}
            /\ Cardinality(ids) = Len(summary_rows)
            /\ \A q \in 1..Len(summary_rows) :
                   summary_rows[q]["point_count"] =
                       Cardinality({j \in 1..Len(joined_rows) :
                           joined_rows[j][polygon_id_col] =
                               summary_rows[q][polygon_id_col]})
            /\ ("" \in ids) <=> (unmatched # {})
            /\ \A q \in 1..Len(summary_rows) :
                   summary_rows[q][polygon_id_col] = "" =>
                       summary_rows[q]["point_count"] = Cardinality(unmatched)

====
